---- MODULE Spec2Model ----
(***************************************************************************)
(* Model of native_bridge/bluetooth_bridge.py: a Flask application that    *)
(* opens one serial port at import time and forwards the `command` field   *)
(* of every POST /send body, newline-terminated, to that port.             *)
(*                                                                         *)
(* Strings are sequences of Unicode code points, byte strings sequences of *)
(* numbers 0..255.  The development server started by app.run() handles    *)
(* each request in its own thread, so handlers are interleaved statement   *)
(* by statement, and a write to the port is transmitted chunk by chunk.    *)
(***************************************************************************)
EXTENDS Integers, Sequences, FiniteSets, TLC

\* ------------------------------------------------------------- bounds
\* Requests that arrive during one run of the process (Spec).
MaxReq == 2
\* Longest command string, in code points, of the single-request runs (FnSpec).
MaxLen == 2

\* ------------------------------------------------------------- characters
\* '\n', the terminator the handler appends.
NL == 10

\* The code points commands are built from: a newline, a space, the letter A,
\* a letter outside ASCII (U+00E9) and a lone surrogate (JSON "\ud800").
Alphabet == {NL, 32, 65, 233, 55296}

StringsUpTo(n) == UNION {[1..k -> Alphabet] : k \in 0..n}

\* The code points str.strip() removes when called without arguments.
PyWhitespace ==
    (9..13) \cup (28..32) \cup {133, 160, 5760} \cup (8192..8202)
        \cup {8232, 8233, 8239, 8287, 12288}

IsSpace(c) == c \in PyWhitespace

IsSurrogate(c) == c >= 55296 /\ c <= 57343

\* ------------------------------------------------------------- str.encode()
\* UTF-8 of one code point (strict error handler: surrogates have no encoding).
Utf8Char(c) ==
    IF c < 128 THEN <<c>>
    ELSE IF c < 2048 THEN <<192 + (c \div 64), 128 + (c % 64)>>
    ELSE IF c < 65536
         THEN <<224 + (c \div 4096), 128 + ((c \div 64) % 64), 128 + (c % 64)>>
    ELSE <<240 + (c \div 262144), 128 + ((c \div 4096) % 64),
           128 + ((c \div 64) % 64), 128 + (c % 64)>>

RECURSIVE Utf8(_)
Utf8(s) == IF s = <<>> THEN <<>> ELSE Utf8Char(Head(s)) \o Utf8(Tail(s))

\* command.encode() raises UnicodeEncodeError on a surrogate.
Encodable(s) == \A i \in 1..Len(s) : ~IsSurrogate(s[i])

\* ------------------------------------------------------------- str.strip()
RECURSIVE LStrip(_)
LStrip(s) == IF s # <<>> /\ IsSpace(Head(s)) THEN LStrip(Tail(s)) ELSE s

RECURSIVE RStrip(_)
RStrip(s) ==
    IF s # <<>> /\ IsSpace(s[Len(s)]) THEN RStrip(SubSeq(s, 1, Len(s) - 1)) ELSE s

\* Variant: str.rstrip().
StripTrailingOnly(s) == RStrip(s)

Strip(s) == RStrip(LStrip(s))

\* ------------------------------------------------------------- request bodies
\* kind: "none"      no JSON body: not sent as application/json
\*       "invalid"   sent as application/json, but not parsable (or empty)
\*       "nonobject" valid JSON that is not an object ([], null, 3, ...)
\*       "nocommand" a JSON object without the key `command`
\*       "nonstring" a JSON object whose `command` is not a string (3, null)
\*       "string"    a JSON object whose `command` is the string cmd
Body(kind, cmd) == [kind |-> kind, cmd |-> cmd]

OtherBodies ==
    {Body(k, <<>>) : k \in {"none", "invalid", "nonobject", "nocommand", "nonstring"}}

Bodies == OtherBodies \cup {Body("string", s) : s \in StringsUpTo(MaxLen)}

\* The bodies of the concurrent runs: one of each kind.
ConcBodies ==
    OtherBodies \cup {Body("string", <<65>>), Body("string", <<55296>>)}

Reqs == 1..MaxReq

NoResp == [code |-> 0, status |-> "", command |-> <<>>]

NewReq ==
    [pc |-> "new", body |-> Body("none", <<>>), command |-> <<>>, data |-> <<>>,
     pos |-> 0, calls |-> <<>>, exc |-> "", resp |-> NoResp]

\* ------------------------------------------------------------- state
VARIABLES
    mainpc,   \* the main thread: "line8", "line16", "serving", "exited"
    ser,      \* the module-level handle: "unopened" or "open"
    opens,    \* how many times serial.Serial(...) has returned a handle
    linkUp,   \* the environment: the device is attached and accepts bytes
    req,      \* per request: the handler's position, locals and response
    wire      \* what the device has received: <<owner request, byte>> pairs

vars == <<mainpc, ser, opens, linkUp, req, wire>>

Init ==
    /\ mainpc = "line8"
    /\ ser = "unopened"
    /\ opens = 0
    /\ linkUp \in BOOLEAN
    /\ req = [r \in Reqs |-> NewReq]
    /\ wire = <<>>

\* ------------------------------------------------------------- startup
\* Variant: the failure to open is caught and the script goes on.
OpenSerialSwallow ==
    /\ mainpc = "line8"
    /\ IF linkUp
       THEN /\ ser' = "open"
            /\ opens' = opens + 1
       ELSE UNCHANGED <<ser, opens>>
    /\ mainpc' = "line16"
    /\ UNCHANGED <<linkUp, req, wire>>

\* ser = serial.Serial('COM5', 9600, timeout=1): an exception at import time
\* ends the process before app.run() is reached.
OpenSerial ==
    /\ mainpc = "line8"
    /\ IF linkUp
       THEN /\ ser' = "open"
            /\ opens' = opens + 1
            /\ mainpc' = "line16"
       ELSE /\ mainpc' = "exited"
            /\ UNCHANGED <<ser, opens>>
    /\ UNCHANGED <<linkUp, req, wire>>

\* if __name__ == '__main__': app.run(port=5000)
AppRun ==
    /\ mainpc = "line16"
    /\ mainpc' = "serving"
    /\ UNCHANGED <<ser, opens, linkUp, req, wire>>

\* ------------------------------------------------------------- the handler
\* A request arrives and the server starts send_command() for it in a thread
\* of its own.  Requests are numbered in order of arrival.
Accept(r, b) ==
    /\ mainpc = "serving"
    /\ req[r].pc = "new"
    /\ \A q \in Reqs : q < r => req[q].pc # "new"
    /\ req' = [req EXCEPT ![r].pc = "line12", ![r].body = b]
    /\ UNCHANGED <<mainpc, ser, opens, linkUp, wire>>

Raised(e) == [exc |-> e, command |-> <<>>]

\* Variant: the terminator is left out.
Line12OutcomesNoNewline(body) ==
    CASE body.kind = "none" -> {Raised("UnsupportedMediaType"), Raised("AttributeError")}
      [] body.kind = "invalid" -> {Raised("BadRequest")}
      [] body.kind = "nonobject" -> {Raised("AttributeError")}
      [] body.kind = "nonstring" -> {Raised("TypeError")}
      [] body.kind = "nocommand" -> {[exc |-> "", command |-> <<>>]}
      [] body.kind = "string" -> {[exc |-> "", command |-> body.cmd]}

\* Variant: request.get_json(silent=True) or {}: no body counts as {}.
Line12OutcomesSilent(body) ==
    CASE body.kind \in {"none", "invalid", "nocommand"} ->
            {[exc |-> "", command |-> <<>> \o <<NL>>]}
      [] body.kind = "nonobject" -> {Raised("AttributeError")}
      [] body.kind = "nonstring" -> {Raised("TypeError")}
      [] body.kind = "string" -> {[exc |-> "", command |-> body.cmd \o <<NL>>]}

\* Variant: request.json.get('command') + '\n': no default, None + str raises.
Line12OutcomesNoDefault(body) ==
    CASE body.kind = "none" -> {Raised("UnsupportedMediaType"), Raised("AttributeError")}
      [] body.kind = "invalid" -> {Raised("BadRequest")}
      [] body.kind = "nonobject" -> {Raised("AttributeError")}
      [] body.kind \in {"nonstring", "nocommand"} -> {Raised("TypeError")}
      [] body.kind = "string" -> {[exc |-> "", command |-> body.cmd \o <<NL>>]}

\* request.json.get('command', '') + '\n': the exception raised, or the value
\* bound to `command`.  What request.json does without a JSON body depends on
\* the Flask release: it raises 415, or returns None (and None has no .get).
Line12Outcomes(body) ==
    CASE body.kind = "none" -> {Raised("UnsupportedMediaType"), Raised("AttributeError")}
      [] body.kind = "invalid" -> {Raised("BadRequest")}
      [] body.kind = "nonobject" -> {Raised("AttributeError")}
      [] body.kind = "nonstring" -> {Raised("TypeError")}
      [] body.kind = "nocommand" -> {[exc |-> "", command |-> <<>> \o <<NL>>]}
      [] body.kind = "string" -> {[exc |-> "", command |-> body.cmd \o <<NL>>]}

Line12(r) ==
    /\ req[r].pc = "line12"
    /\ \E o \in Line12Outcomes(req[r].body) :
          req' = [req EXCEPT ![r].pc = IF o.exc = "" THEN "line13" ELSE "raised",
                             ![r].exc = o.exc,
                             ![r].command = o.command]
    /\ UNCHANGED <<mainpc, ser, opens, linkUp, wire>>

\* Variant: the handler opens the port again for every write.
Line13Reopen(r) ==
    /\ req[r].pc = "line13"
    /\ IF ~Encodable(req[r].command)
       THEN /\ req' = [req EXCEPT ![r].pc = "raised", ![r].exc = "UnicodeEncodeError"]
            /\ UNCHANGED <<ser, opens>>
       ELSE /\ req' = [req EXCEPT ![r].pc = "writing",
                                  ![r].data = Utf8(req[r].command),
                                  ![r].calls = Append(@, "write")]
            /\ ser' = "open"
            /\ opens' = opens + 1
    /\ UNCHANGED <<mainpc, linkUp, wire>>

\* ser.write(command.encode()), up to the point where the port starts to
\* transmit: the encoding, the call and pyserial's check that the port is open.
Line13(r) ==
    /\ req[r].pc = "line13"
    /\ IF ~Encodable(req[r].command)
       THEN req' = [req EXCEPT ![r].pc = "raised", ![r].exc = "UnicodeEncodeError"]
       ELSE IF ser # "open"
       THEN req' = [req EXCEPT ![r].pc = "raised", ![r].exc = "SerialException",
                               ![r].data = Utf8(req[r].command),
                               ![r].calls = Append(@, "write")]
       ELSE req' = [req EXCEPT ![r].pc = "writing",
                               ![r].data = Utf8(req[r].command),
                               ![r].calls = Append(@, "write")]
    /\ UNCHANGED <<mainpc, ser, opens, linkUp, wire>>

\* Variant: a failed write is tried again from the start.
TransmitRetry(r) ==
    /\ req[r].pc = "writing"
    /\ IF ~linkUp
       THEN /\ req' = [req EXCEPT ![r].pos = 0, ![r].calls = Append(@, "write")]
            /\ UNCHANGED wire
       ELSE \E n \in 1..(Len(req[r].data) - req[r].pos) :
               /\ wire' = wire \o [i \in 1..n |-> <<r, req[r].data[req[r].pos + i]>>]
               /\ req' = [req EXCEPT
                    ![r].pos = @ + n,
                    ![r].pc = IF req[r].pos + n = Len(req[r].data)
                              THEN "line14" ELSE "writing"]
    /\ UNCHANGED <<mainpc, ser, opens, linkUp>>

\* Variant: the write is wrapped in try/except and its failure dropped.
TransmitSwallow(r) ==
    /\ req[r].pc = "writing"
    /\ IF ~linkUp
       THEN /\ req' = [req EXCEPT ![r].pc = "line14"]
            /\ UNCHANGED wire
       ELSE \E n \in 1..(Len(req[r].data) - req[r].pos) :
               /\ wire' = wire \o [i \in 1..n |-> <<r, req[r].data[req[r].pos + i]>>]
               /\ req' = [req EXCEPT
                    ![r].pos = @ + n,
                    ![r].pc = IF req[r].pos + n = Len(req[r].data)
                              THEN "line14" ELSE "writing"]
    /\ UNCHANGED <<mainpc, ser, opens, linkUp>>

\* Inside ser.write: the port takes the next chunk of the buffer, or the
\* operating system reports that the device is gone.  No lock is held.
Transmit(r) ==
    /\ req[r].pc = "writing"
    /\ IF ~linkUp
       THEN /\ req' = [req EXCEPT ![r].pc = "raised", ![r].exc = "SerialException"]
            /\ UNCHANGED wire
       ELSE \E n \in 1..(Len(req[r].data) - req[r].pos) :
               /\ wire' = wire \o [i \in 1..n |-> <<r, req[r].data[req[r].pos + i]>>]
               /\ req' = [req EXCEPT
                    ![r].pos = @ + n,
                    ![r].pc = IF req[r].pos + n = Len(req[r].data)
                              THEN "line14" ELSE "writing"]
    /\ UNCHANGED <<mainpc, ser, opens, linkUp>>

\* return {'status': 'sent', 'command': command.strip()}
Line14(r) ==
    /\ req[r].pc = "line14"
    /\ req' = [req EXCEPT ![r].pc = "done",
                          ![r].resp = [code |-> 200, status |-> "sent",
                                       command |-> Strip(req[r].command)]]
    /\ UNCHANGED <<mainpc, ser, opens, linkUp, wire>>

\* Flask turns an exception of the view into an error response: the code of
\* an HTTP exception, 500 for any other.  The server goes on.
StatusOf(e) ==
    CASE e = "BadRequest" -> 400
      [] e = "UnsupportedMediaType" -> 415
      [] OTHER -> 500

\* Variant: the exception of a view ends the process.
HandleExceptionCrash(r) ==
    /\ req[r].pc = "raised"
    /\ mainpc' = "exited"
    /\ UNCHANGED <<ser, opens, linkUp, req, wire>>

HandleException(r) ==
    /\ req[r].pc = "raised"
    /\ req' = [req EXCEPT ![r].pc = "done",
                          ![r].resp = [code |-> StatusOf(req[r].exc),
                                       status |-> "error", command |-> <<>>]]
    /\ UNCHANGED <<mainpc, ser, opens, linkUp, wire>>

\* ------------------------------------------------------------- environment
\* The device is unplugged, switched off or out of range.
Unplug ==
    /\ linkUp
    /\ linkUp' = FALSE
    /\ UNCHANGED <<mainpc, ser, opens, req, wire>>

Replug ==
    /\ ~linkUp
    /\ linkUp' = TRUE
    /\ UNCHANGED <<mainpc, ser, opens, req, wire>>

\* ------------------------------------------------------------- specifications
Handler(r) ==
    \/ Line12(r)
    \/ Line13(r)
    \/ Transmit(r)
    \/ Line14(r)
    \/ HandleException(r)

\* Up to MaxReq requests, handled concurrently.
Next ==
    \/ OpenSerial
    \/ AppRun
    \/ Unplug
    \/ Replug
    \/ \E r \in Reqs : \E b \in ConcBodies : Accept(r, b)
    \/ \E r \in Reqs : Handler(r)

Spec == Init /\ [][Next]_vars

\* Every started handler thread keeps running until it has responded.
FairSpec == Spec /\ \A r \in Reqs : WF_vars(Handler(r))

\* One request with any body of up to MaxLen code points.
FnNext ==
    \/ OpenSerial
    \/ AppRun
    \/ Unplug
    \/ Replug
    \/ \E b \in Bodies : Accept(1, b)
    \/ Handler(1)

FnSpec == Init /\ [][FnNext]_vars

\* ------------------------------------------------------------- observations
\* The bytes of request r that have reached the device, in order.
OwnedBy(r) == SelectSeq(wire, LAMBDA e : e[1] = r)

WireOf(r) == [i \in 1..Len(OwnedBy(r)) |-> OwnedBy(r)[i][2]]

IsPrefix(a, b) == Len(a) <= Len(b) /\ SubSeq(b, 1, Len(a)) = a

\* The write of r has returned (or r has gone on from there).
WriteReturned(r) == req[r].pc = "line14" \/ (req[r].pc = "done" /\ req[r].exc = "")

AllSpace(s) == \A i \in 1..Len(s) : IsSpace(s[i])

\* ------------------------------------------------------------- C1
\* C1 as stated: for every command string C, the request writes exactly the
\* bytes of C followed by one newline (a write the device itself cuts short
\* left aside).
C1_Original ==
    \A r \in Reqs :
        (req[r].pc = "done" /\ req[r].body.kind = "string"
            /\ req[r].exc # "SerialException")
        => WireOf(r) = Utf8(req[r].body.cmd) \o <<NL>>

\* C1, amended: for every command string C that UTF-8 can encode, the one
\* write call of the request is given exactly the bytes of C followed by one
\* newline, what has reached the device is always a prefix of them, and all of
\* them have reached it when the write returns; a C that holds a lone
\* surrogate is never written, and the request is answered with 500.
C1_WritesCommandAndNewline ==
    \A r \in Reqs :
        req[r].body.kind = "string" =>
            LET C == req[r].body.cmd IN
            IF Encodable(C)
            THEN /\ IsPrefix(WireOf(r), Utf8(C) \o <<NL>>)
                 /\ req[r].calls # <<>> => req[r].data = Utf8(C) \o <<NL>>
                 /\ WriteReturned(r) => WireOf(r) = Utf8(C) \o <<NL>>
            ELSE /\ req[r].calls = <<>>
                 /\ WireOf(r) = <<>>
                 /\ req[r].pc = "done" => req[r].resp.code = 500

\* A command with a leading space and a two-byte letter has been written.
C1_Witness ==
    \E r \in Reqs :
        /\ req[r].pc = "done"
        /\ req[r].body = Body("string", <<32, 233>>)
        /\ WireOf(r) = <<32, 195, 169, 10>>

\* ------------------------------------------------------------- C2
\* C2 as stated: the `command` of a "sent" response is the transmitted text
\* minus the one newline that was appended, whatever C begins or ends with.
C2_Original ==
    \A r \in Reqs :
        req[r].resp.status = "sent"
        => req[r].resp.command = SubSeq(req[r].command, 1, Len(req[r].command) - 1)

\* C2, amended: the `command` of a "sent" response is the transmitted text
\* with all leading and all trailing whitespace removed (the appended newline
\* included): the text is whitespace, then the response's command, then
\* whitespace, and the response's command neither begins nor ends with
\* whitespace.  It equals C exactly when C neither begins nor ends with
\* whitespace.
C2_ResponseIsStripped ==
    \A r \in Reqs :
        req[r].resp.status = "sent" =>
            LET t == req[r].command
                c == req[r].resp.command
            IN /\ t = req[r].body.cmd \o <<NL>>
               /\ \E i \in 0..Len(t) :
                     /\ i + Len(c) <= Len(t)
                     /\ AllSpace(SubSeq(t, 1, i))
                     /\ SubSeq(t, i + 1, i + Len(c)) = c
                     /\ AllSpace(SubSeq(t, i + Len(c) + 1, Len(t)))
               /\ c # <<>> => ~IsSpace(c[1]) /\ ~IsSpace(c[Len(c)])
               /\ (c = req[r].body.cmd) <=>
                     (req[r].body.cmd = <<>>
                        \/ (~IsSpace(req[r].body.cmd[1])
                              /\ ~IsSpace(req[r].body.cmd[Len(req[r].body.cmd)])))

\* " A" was sent and acknowledged as "A".
C2_Witness ==
    \E r \in Reqs :
        /\ req[r].resp.status = "sent"
        /\ req[r].body = Body("string", <<32, 65>>)
        /\ req[r].resp.command = <<65>>

\* ------------------------------------------------------------- C3
\* C3 as stated: the device receives a concatenation of whole payloads: the
\* bytes of one request are never separated by a byte of another request.
C3_NoInterleaving ==
    \A i \in 1..Len(wire) : \A k \in i..Len(wire) :
        wire[i][1] = wire[k][1] => \A j \in i..k : wire[j][1] = wire[i][1]

\* ------------------------------------------------------------- C4
\* C4: a request whose write to the serial handle raises is answered with
\* status 500 (it neither hangs nor ends the process), the process goes on
\* serving, and every request it has accepted is answered in the end.
C4_WriteFailureIsReported ==
    /\ [](\A r \in Reqs :
            req[r].exc = "SerialException" =>
                /\ mainpc = "serving"
                /\ req[r].pc \in {"raised", "done"}
                /\ req[r].pc = "done" =>
                      req[r].resp.code = 500 /\ req[r].resp.status = "error"
                /\ \A q \in Reqs :
                      (req[q].pc = "new" /\ \A p \in Reqs : p < q => req[p].pc # "new")
                      => \A b \in ConcBodies : ENABLED Accept(q, b))
    /\ \A r \in Reqs : (req[r].pc # "new") ~> (req[r].pc = "done")

\* The write of request 1 failed and was answered with 500; the process is
\* still serving and request 2, which has not arrived yet, can be accepted.
C4_Witness ==
    /\ mainpc = "serving"
    /\ req[1].pc = "done" /\ req[1].exc = "SerialException" /\ req[1].resp.code = 500
    /\ req[2].pc = "new"
    /\ ENABLED Accept(2, Body("string", <<65>>))

\* ------------------------------------------------------------- C5
\* C5 as stated: a request without a JSON body, or with an unparsable one, is
\* handled as an empty command: one newline is written and the response is
\* {"status": "sent", "command": ""}.
C5_Original ==
    \A r \in Reqs :
        (req[r].pc = "done" /\ req[r].body.kind \in {"none", "invalid"})
        => /\ WireOf(r) = <<NL>>
           /\ req[r].resp = [code |-> 200, status |-> "sent", command |-> <<>>]

\* C5, amended: a request without a JSON body, or with an unparsable one, is
\* rejected: nothing is written to the serial handle, no write is attempted,
\* and the response is an error, never "sent": 400 for an unparsable body,
\* 415 or 500 (by Flask release) for a missing one.
C5_MalformedIsRejected ==
    \A r \in Reqs :
        req[r].body.kind \in {"none", "invalid"} =>
            /\ req[r].calls = <<>>
            /\ WireOf(r) = <<>>
            /\ req[r].pc \in {"new", "line12", "raised", "done"}
            /\ req[r].pc = "done" =>
                  /\ req[r].resp.status = "error"
                  /\ req[r].body.kind = "invalid" => req[r].resp.code = 400
                  /\ req[r].body.kind = "none" => req[r].resp.code \in {415, 500}

\* An unparsable body has been answered with 400 and a missing one with 415.
C5_Witness ==
    \E r, q \in Reqs :
        /\ req[r].pc = "done" /\ req[r].body.kind = "invalid" /\ req[r].resp.code = 400
        /\ req[q].pc = "done" /\ req[q].body.kind = "none" /\ req[q].resp.code = 415

\* ------------------------------------------------------------- C6
\* C6: a JSON object without `command` gives the outcome of {"command": ""}:
\* for either body the write call is given one newline and nothing else, that
\* newline is what has reached the device when the write returns, and the
\* response is {"status": "sent", "command": ""}.
C6_MissingCommandIsEmpty ==
    \A r \in Reqs :
        req[r].body \in {Body("nocommand", <<>>), Body("string", <<>>)} =>
            /\ req[r].pc \notin {"new", "line12"} =>
                  req[r].command = <<NL>> /\ req[r].exc \in {"", "SerialException"}
            /\ req[r].calls # <<>> => req[r].data = <<NL>>
            /\ IsPrefix(WireOf(r), <<NL>>)
            /\ WriteReturned(r) => WireOf(r) = <<NL>>
            /\ (req[r].pc = "done" /\ req[r].exc = "") =>
                  req[r].resp = [code |-> 200, status |-> "sent", command |-> <<>>]

\* A body {} has been acknowledged after one newline reached the device.
C6_Witness ==
    \E r \in Reqs :
        /\ req[r].body.kind = "nocommand"
        /\ req[r].pc = "done"
        /\ req[r].resp = [code |-> 200, status |-> "sent", command |-> <<>>]
        /\ WireOf(r) = <<NL>>

\* ------------------------------------------------------------- C7
\* The bodies send_command() gets as far as ser.write() with.
Writable(b) ==
    b.kind = "nocommand" \/ (b.kind = "string" /\ Encodable(b.cmd))

\* C7 as stated: every handled request has made exactly one write call.
C7_Original ==
    \A r \in Reqs : req[r].pc = "done" => req[r].calls = <<"write">>

\* C7, amended: a request makes at most one call on the serial handle, a
\* write, never a read and never a second write after a failed one: exactly
\* one when its body is a JSON object whose `command` is absent or a string
\* UTF-8 can encode, and none otherwise (such a request is answered with an
\* error).  Over k handled requests the write attempts number those with such
\* a body.
C7_AtMostOneWrite ==
    \A r \in Reqs :
        /\ req[r].calls \in {<<>>, <<"write">>}
        /\ req[r].pc \in {"writing", "line14"} => req[r].calls = <<"write">>
        /\ req[r].pc = "done" =>
              IF Writable(req[r].body)
              THEN req[r].calls = <<"write">>
              ELSE req[r].calls = <<>> /\ req[r].resp.status = "error"

\* One request lost its write to a device failure and did not try again;
\* another was rejected without a write.
C7_Witness ==
    \E r, q \in Reqs :
        /\ req[r].pc = "done" /\ req[r].exc = "SerialException"
        /\ req[r].calls = <<"write">>
        /\ req[q].pc = "done" /\ req[q].body.kind = "nonstring" /\ req[q].calls = <<>>

\* ------------------------------------------------------------- C8
\* C8: when the serial device cannot be opened at start the process ends
\* there: it never serves, and no request is accepted or handled, in any
\* state where the handle is not open.
C8_NoServiceWithoutHandle ==
    /\ ser # "open" => (mainpc # "serving" /\ \A r \in Reqs : req[r].pc = "new")
    /\ mainpc = "exited" => (ser = "unopened" /\ opens = 0)
    /\ mainpc \in {"line16", "serving"} => ser = "open"

\* The open failed and the process has ended.
C8_Witness == mainpc = "exited" /\ ser = "unopened" /\ ~linkUp

\* ------------------------------------------------------------- C9
\* C9: at most one handle is ever opened, it is opened before any request is
\* served, and once open it is never reopened, closed or rebound, whatever the
\* handlers do.
C9_OneHandle ==
    /\ [](opens <= 1)
    /\ []((mainpc = "serving" \/ \E r \in Reqs : req[r].pc # "new")
             => (ser = "open" /\ opens = 1))
    /\ [][ser = "open" => (ser' = "open" /\ opens' = opens)]_vars

\* Two requests were handled, one of them through a write, on the one handle.
C9_Witness ==
    /\ ser = "open" /\ opens = 1
    /\ \A r \in Reqs : req[r].pc = "done"
    /\ \E r \in Reqs : req[r].resp.status = "sent"

\* ------------------------------------------------------------- C10
\* C10: a request is answered "sent" only when its own write has returned
\* without an exception, with all its bytes at the device; a request whose
\* write raised is answered with an error.
C10_SentOnlyAfterWrite ==
    \A r \in Reqs :
        /\ req[r].resp.status = "sent" =>
              /\ req[r].exc = ""
              /\ req[r].calls = <<"write">>
              /\ req[r].data # <<>> /\ req[r].pos = Len(req[r].data)
              /\ WireOf(r) = req[r].data
        /\ (req[r].exc # "" /\ req[r].pc = "done") =>
              req[r].resp.status = "error" /\ req[r].resp.code >= 400

\* One request was acknowledged while another, whose write failed, was not.
C10_Witness ==
    \E r, q \in Reqs :
        /\ req[r].resp.status = "sent"
        /\ req[q].pc = "done" /\ req[q].exc = "SerialException"
        /\ req[q].resp.status = "error"

====
